---- MODULE Spec2Model ----
(***************************************************************************)
(* Model of src/main.py: the device registry `active_connections`, the     *)
(* WebSocket handler `websocket_endpoint`, the command dispatcher          *)
(* `send_command` and the status endpoint `root`.                          *)
(*                                                                         *)
(* The program runs on one asyncio event loop: code between two `await`s   *)
(* runs without interleaving, so every action below is one such stretch.   *)
(***************************************************************************)
EXTENDS Integers, Sequences, FiniteSets, TLC

\* ---------------------------------------------------------------- bounds
NumSessions == 2
NumCalls == 1

Sessions == 1..NumSessions
Calls == 1..NumCalls
DeviceIds == {"pi-1", "pi-2"}
Cmds == {"reboot"}
None == "None"

\* Values of the variables before they are first assigned.
NoSession == 0
NoRequest == [device_id |-> None, cmd |-> None]
NoCommand == [cmd |-> None, timestamp |-> 0]
NoResponse == [success |-> FALSE, message |-> <<>>, device_id |-> None]
NoStatus == [status |-> None, active_connections |-> 0, devices |-> <<>>]

\* Inbound texts a device may send (main.py:161), one per shape the handler
\* distinguishes.
Texts == {"hello world", "{\"type\":\"response\"}", "{\"type\":\"status\"}",
          "{\"type\":\"error\"}", "{\"type\":\"ping\"}", "{\"data\":1}", "[1]"}

VARIABLES
    active_connections, \* main.py:40, an insertion-ordered dict: a sequence of [key, value]
    pc,                 \* position of each websocket_endpoint coroutine
    sid,                \* the device_id path parameter of each session
    chan,               \* transport state of each session's WebSocket: "open" is
                        \* readable and writable, on "closed" and "broken" a read
                        \* or write raises, on "stalled" it does not complete
    outbox,             \* texts written to each session's WebSocket, in order
    dpc,                \* position of each send_command coroutine
    request,            \* SendCommandRequest of each call
    websocket,          \* local `websocket` of each call (main.py:106)
    command_data,       \* local `command_data` of each call (main.py:110)
    response,           \* SendCommandResponse of each call
    writes,             \* number of send_text attempts each call has made
    status,             \* latest body returned by root()
    latest,             \* per device_id, the session that last ran main.py:146
    now                 \* asyncio.get_event_loop().time(), in requests served

vars == <<active_connections, pc, sid, chan, outbox, dpc, request,
          websocket, command_data, response, writes, status, latest, now>>

sessionVars == <<pc, sid, chan, outbox, latest>>
callVars == <<dpc, request, websocket, command_data, response, writes, now>>

\* ------------------------------------------------------- dict operations
\* `k in d`
DictHas(d, k) == \E i \in 1..Len(d) : d[i].key = k

\* `d[k]`
DictGet(d, k) == d[CHOOSE i \in 1..Len(d) : d[i].key = k].value

\* A store that never looks for an existing entry of k.
DictSetAppend(d, k, v) == Append(d, [key |-> k, value |-> v])

\* `d[k] = v`: overwrites in place when k is present, else inserts at the end
DictSet(d, k, v) ==
    IF DictHas(d, k)
    THEN [i \in 1..Len(d) |-> IF d[i].key = k THEN [key |-> k, value |-> v] ELSE d[i]]
    ELSE Append(d, [key |-> k, value |-> v])

\* What is left of a dict after a statement on it raised KeyError: no dict
\* of the program has this value.
KeyError == <<[key |-> "KeyError", value |-> NoSession]>>

\* `del d[k]`: raises KeyError when k is absent
DictDel(d, k) ==
    IF DictHas(d, k) THEN SelectSeq(d, LAMBDA e : e.key # k) ELSE KeyError

\* `list(d.keys())`
DictKeys(d) == [i \in 1..Len(d) |-> d[i].key]

\* `len(d)`
DictLen(d) == Len(d)

\* `d.get(k)`: the session registered under k, or NoSession
Lookup(d, k) == IF DictHas(d, k) THEN DictGet(d, k) ELSE NoSession

\* ------------------------------------------------------------- payloads
\* json.dumps(welcome_msg), main.py:150-155
WelcomeMsg(id) ==
    [type |-> "connected", message |-> <<"Device", id, "connected successfully">>,
     device_id |-> id]

\* command_data, main.py:110-113
CommandData(cmd, t) == [cmd |-> cmd, timestamp |-> t]

\* json.loads(data), main.py:164: "error" is JSONDecodeError, "dict" a JSON
\* object (with its "type" member, None when it has none), "other" any other
\* JSON value.
JsonLoads(data) ==
    CASE data = "hello world"            -> [kind |-> "error", type |-> None]
      [] data = "{\"type\":\"response\"}" -> [kind |-> "dict", type |-> "response"]
      [] data = "{\"type\":\"status\"}"   -> [kind |-> "dict", type |-> "status"]
      [] data = "{\"type\":\"error\"}"    -> [kind |-> "dict", type |-> "error"]
      [] data = "{\"type\":\"ping\"}"     -> [kind |-> "dict", type |-> "ping"]
      [] data = "{\"data\":1}"            -> [kind |-> "dict", type |-> None]
      [] data = "[1]"                    -> [kind |-> "other", type |-> None]

\* message.get("type", "response"), main.py:168
MsgType(message) == IF message.type = None THEN "response" ELSE message.type

\* The body of the inner try, main.py:163-181, for one received text:
\* [raised |-> whether an exception leaves the inner try, log |-> lines logged].
\* A JSON value that is no object has no .get: AttributeError at main.py:168.
\* The log is output only: no code reads it back.
HandleMessage(data) ==
    LET message == JsonLoads(data) IN
    IF message.kind = "error"
    THEN [raised |-> FALSE, log |-> <<"plain text">>]
    ELSE IF message.kind = "other"
    THEN [raised |-> TRUE, log |-> <<"message">>]
    ELSE LET msg_type == MsgType(message) IN
         [raised |-> FALSE,
          log |-> IF msg_type \in {"response", "status", "error"}
                  THEN <<"message", msg_type>>
                  ELSE <<"message">>]

\* ---------------------------------------------------------------- Init
Init ==
    /\ active_connections = <<>>
    /\ pc = [s \in Sessions |-> "NONE"]
    /\ sid = [s \in Sessions |-> None]
    /\ chan = [s \in Sessions |-> "none"]
    /\ outbox = [s \in Sessions |-> <<>>]
    /\ dpc = [d \in Calls |-> "idle"]
    /\ request = [d \in Calls |-> NoRequest]
    /\ websocket = [d \in Calls |-> NoSession]
    /\ command_data = [d \in Calls |-> NoCommand]
    /\ response = [d \in Calls |-> NoResponse]
    /\ writes = [d \in Calls |-> 0]
    /\ status = NoStatus
    /\ latest = [id \in DeviceIds |-> NoSession]
    /\ now = 0

\* ------------------------------------------------------ websocket_endpoint
\* A device opens /ws/{device_id}: the handler starts and awaits accept().
\* Sessions are numbered in the order their connections arrive, and the
\* identifier of the first one is called "pi-1" (identifiers are opaque keys).
Connect(s, id) ==
    /\ pc[s] = "NONE"
    /\ \A t \in Sessions : t < s => pc[t] # "NONE"
    /\ s = 1 => id = "pi-1"
    /\ pc' = [pc EXCEPT ![s] = "CONNECTING"]
    /\ sid' = [sid EXCEPT ![s] = id]
    /\ chan' = [chan EXCEPT ![s] = "open"]
    /\ UNCHANGED <<active_connections, outbox, latest, callVars, status>>

\* accept() returns; the entry is stored (main.py:142-146) and the handler
\* suspends in the welcome send_text.
Accept(s) ==
    /\ pc[s] = "CONNECTING"
    /\ chan[s] = "open"
    /\ active_connections' = DictSet(active_connections, sid[s], s)
    /\ latest' = [latest EXCEPT ![sid[s]] = s]
    /\ pc' = [pc EXCEPT ![s] = "WELCOME"]
    /\ UNCHANGED <<sid, chan, outbox, callVars, status>>

\* accept() raises (the peer went away during the handshake): line 142 is
\* outside the try, so the handler ends without having stored anything.
AcceptFail(s) ==
    /\ pc[s] = "CONNECTING"
    /\ chan[s] = "closed"
    /\ pc' = [pc EXCEPT ![s] = "FAILED"]
    /\ UNCHANGED <<active_connections, sid, chan, outbox, latest, callVars,
                   status>>

\* A finally block that deletes without looking first.
SessionCleanupUnchecked(d, id, s) == DictDel(d, id)

\* A finally block that empties the registry.
SessionCleanupClear(d, id, s) == <<>>

\* A finally block that leaves the entry in place.
SessionCleanupNone(d, id, s) == d

\* The finally block, main.py:192-195
SessionCleanup(d, id, s) == IF DictHas(d, id) THEN DictDel(d, id) ELSE d

\* The handler leaves through the finally block and returns; the server then
\* closes the WebSocket.
Close(s) ==
    /\ active_connections' = SessionCleanup(active_connections, sid[s], s)
    /\ pc' = [pc EXCEPT ![s] = "CLOSED"]
    /\ chan' = [chan EXCEPT ![s] = "closed"]

\* The welcome send_text completes (main.py:155) and the loop is entered.
Welcome(s) ==
    /\ pc[s] = "WELCOME"
    /\ chan[s] = "open"
    /\ outbox' = [outbox EXCEPT ![s] = Append(@, WelcomeMsg(sid[s]))]
    /\ pc' = [pc EXCEPT ![s] = "READING"]
    /\ UNCHANGED <<active_connections, sid, chan, latest, callVars, status>>

\* A handler whose cleanup is not reached when the welcome send_text raises.
WelcomeFailNoCleanup(s) ==
    /\ pc[s] = "WELCOME"
    /\ chan[s] = "closed"
    /\ pc' = [pc EXCEPT ![s] = "CLOSED"]
    /\ UNCHANGED <<active_connections, sid, chan, outbox, latest, callVars, status>>

\* The welcome send_text raises: caught at main.py:190, then the finally block.
WelcomeFail(s) ==
    /\ pc[s] = "WELCOME"
    /\ chan[s] = "closed"
    /\ Close(s)
    /\ UNCHANGED <<sid, outbox, latest, callVars, status>>

\* A handler that acknowledges every message it could handle.
ReceiveWithReply(s, data) ==
    /\ pc[s] = "READING"
    /\ chan[s] = "open"
    /\ LET h == HandleMessage(data) IN
       IF h.raised
       THEN /\ Close(s)
            /\ UNCHANGED outbox
       ELSE /\ outbox' = [outbox EXCEPT ![s] = Append(@, [type |-> "ack"])]
            /\ UNCHANGED <<active_connections, pc, chan>>
    /\ UNCHANGED <<sid, latest, callVars, status>>

\* receive_text() returns `data`; one iteration of the loop, main.py:161-188.
\* An exception that leaves the inner try is caught at main.py:186 and breaks
\* the loop, which runs the finally block.
Receive(s, data) ==
    /\ pc[s] = "READING"
    /\ chan[s] = "open"
    /\ LET h == HandleMessage(data) IN
       IF h.raised
       THEN Close(s)
       ELSE UNCHANGED <<active_connections, pc, chan>>
    /\ UNCHANGED <<sid, outbox, latest, callVars, status>>

\* receive_text() raises WebSocketDisconnect, main.py:183-185
Disconnect(s) ==
    /\ pc[s] = "READING"
    /\ chan[s] = "closed"
    /\ Close(s)
    /\ UNCHANGED <<sid, outbox, latest, callVars, status>>

\* receive_text() raises another exception (a non-text frame, a transport
\* error), main.py:186-188
ReadError(s) ==
    /\ pc[s] = "READING"
    /\ chan[s] = "broken"
    /\ Close(s)
    /\ UNCHANGED <<sid, outbox, latest, callVars, status>>

\* The transport of a reading session fails other than by a close (a frame
\* that is no text, a reset): the pending receive_text will raise.
TransportFault(s) ==
    /\ pc[s] = "READING"
    /\ chan[s] = "open"
    /\ chan' = [chan EXCEPT ![s] = "broken"]
    /\ UNCHANGED <<active_connections, pc, sid, outbox, latest, callVars,
                   status>>

\* The peer of a registered session stops taking data without closing (a
\* full send buffer, a half-open connection): send_text on it stays pending.
Stall(s) ==
    /\ pc[s] \in {"WELCOME", "READING"}
    /\ chan[s] = "open"
    /\ chan' = [chan EXCEPT ![s] = "stalled"]
    /\ UNCHANGED <<active_connections, pc, sid, outbox, latest, callVars,
                   status>>

\* The device side closes the connection.
DeviceClose(s) ==
    /\ pc[s] \in {"CONNECTING", "WELCOME", "READING"}
    /\ chan[s] = "open"
    /\ chan' = [chan EXCEPT ![s] = "closed"]
    /\ UNCHANGED <<active_connections, pc, sid, outbox, latest, callVars,
                   status>>

\* -------------------------------------------------------------- send_command
\* The absent branch answering as if the command had been delivered.
NotConnectedAsSent(id) ==
    [success |-> TRUE, message |-> <<"Device", id, "is not connected">>, device_id |-> id]

\* main.py:100-104
NotConnected(id) ==
    [success |-> FALSE, message |-> <<"Device", id, "is not connected">>, device_id |-> id]

\* main.py:117-121
Sent(id, cmd) ==
    [success |-> TRUE, message |-> <<"Command", cmd, "sent to device", id>>, device_id |-> id]

\* main.py:128-132
SendError(id) ==
    [success |-> FALSE, message |-> <<"Error sending command:", "closed">>, device_id |-> id]

\* POST /send arrives; main.py:92-114 up to the await of send_text: the
\* presence check, the fetch and the construction of command_data. Calls are
\* numbered in the order their requests arrive.
DispatchLookup(d, id, cmd) ==
    /\ dpc[d] = "idle"
    /\ \A e \in Calls : e < d => dpc[e] # "idle"
    /\ request' = [request EXCEPT ![d] = [device_id |-> id, cmd |-> cmd]]
    /\ IF ~DictHas(active_connections, id)
       THEN /\ response' = [response EXCEPT ![d] = NotConnected(id)]
            /\ dpc' = [dpc EXCEPT ![d] = "done"]
            /\ UNCHANGED <<websocket, command_data>>
       ELSE /\ websocket' = [websocket EXCEPT ![d] = DictGet(active_connections, id)]
            /\ command_data' = [command_data EXCEPT ![d] = CommandData(cmd, now)]
            /\ dpc' = [dpc EXCEPT ![d] = "sending"]
            /\ UNCHANGED response
    /\ now' = now + 1
    /\ UNCHANGED <<active_connections, sessionVars, writes, status>>

\* An except block that leaves the stale entry in place.
DispatchCleanupNone(d, id, ws) == d

\* An except block that deletes without looking first.
DispatchCleanupUnchecked(d, id, ws) == DictDel(d, id)

\* The except block, main.py:124-126
DispatchCleanup(d, id, ws) == IF DictHas(d, id) THEN DictDel(d, id) ELSE d

\* A dispatcher that sends the command a second time.
DispatchSendOkRetry(d) ==
    /\ dpc[d] = "sending"
    /\ chan[websocket[d]] = "open"
    /\ outbox' = [outbox EXCEPT ![websocket[d]] = Append(Append(@, command_data[d]), command_data[d])]
    /\ writes' = [writes EXCEPT ![d] = @ + 2]
    /\ response' = [response EXCEPT ![d] = Sent(request[d].device_id, request[d].cmd)]
    /\ dpc' = [dpc EXCEPT ![d] = "done"]
    /\ websocket' = [websocket EXCEPT ![d] = NoSession]
    /\ command_data' = [command_data EXCEPT ![d] = NoCommand]
    /\ UNCHANGED <<active_connections, pc, sid, chan, latest, request, status, now>>

\* send_text completes, main.py:114-121
DispatchSendOk(d) ==
    /\ dpc[d] = "sending"
    /\ chan[websocket[d]] = "open"
    /\ outbox' = [outbox EXCEPT ![websocket[d]] = Append(@, command_data[d])]
    /\ writes' = [writes EXCEPT ![d] = @ + 1]
    /\ response' = [response EXCEPT ![d] = Sent(request[d].device_id, request[d].cmd)]
    /\ dpc' = [dpc EXCEPT ![d] = "done"]
    /\ websocket' = [websocket EXCEPT ![d] = NoSession]
    /\ command_data' = [command_data EXCEPT ![d] = NoCommand]
    /\ UNCHANGED <<active_connections, pc, sid, chan, latest, request, status, now>>

\* send_text raises, main.py:122-132
DispatchSendFail(d) ==
    /\ dpc[d] = "sending"
    /\ chan[websocket[d]] \in {"closed", "broken"}
    /\ writes' = [writes EXCEPT ![d] = @ + 1]
    /\ active_connections' =
          DispatchCleanup(active_connections, request[d].device_id, websocket[d])
    /\ response' = [response EXCEPT ![d] = SendError(request[d].device_id)]
    /\ dpc' = [dpc EXCEPT ![d] = "done"]
    /\ websocket' = [websocket EXCEPT ![d] = NoSession]
    /\ command_data' = [command_data EXCEPT ![d] = NoCommand]
    /\ UNCHANGED <<sessionVars, request, status, now>>

\* ---------------------------------------------------------------------- root
\* A count that is off by one.
SnapshotMiscount(d) ==
    [status |-> "online", active_connections |-> DictLen(d) + 1, devices |-> DictKeys(d)]

\* The body returned by root(), main.py:69-73
Snapshot(d) ==
    [status |-> "online", active_connections |-> DictLen(d), devices |-> DictKeys(d)]

\* GET /, main.py:66-73
Root ==
    /\ status' = Snapshot(active_connections)
    /\ UNCHANGED <<active_connections, sessionVars, callVars>>

\* One handler per device connection, each an independent task.
SessionNext ==
    \/ \E s \in Sessions, id \in DeviceIds : Connect(s, id)
    \/ \E s \in Sessions : Accept(s)
    \/ \E s \in Sessions : AcceptFail(s)
    \/ \E s \in Sessions : Welcome(s)
    \/ \E s \in Sessions : WelcomeFail(s)
    \/ \E s \in Sessions, data \in Texts : Receive(s, data)
    \/ \E s \in Sessions : Disconnect(s)
    \/ \E s \in Sessions : ReadError(s)
    \/ \E s \in Sessions : DeviceClose(s)
    \/ \E s \in Sessions : TransportFault(s)

DispatchNext ==
    \/ \E d \in Calls, id \in DeviceIds, cmd \in Cmds : DispatchLookup(d, id, cmd)
    \/ \E d \in Calls : DispatchSendOk(d)
    \/ \E d \in Calls : DispatchSendFail(d)

\* The registry and relay protocol: device sessions and command dispatches.
Next == SessionNext \/ DispatchNext

Spec == Init /\ [][Next]_vars

\* The status endpoint beside the device sessions. root() reads nothing but
\* active_connections, and the sessions alone already bring that dict into
\* every value a dispatch can (a dispatch only deletes a key, as the finally
\* block does).
NextStatus == SessionNext \/ Root

SpecStatus == Init /\ [][NextStatus]_vars

\* The relay with peers that may stall. A pending send_text is a call that
\* takes no step, which Spec allows already, so a stalled peer adds no
\* reachable registry or response to Spec.
NextStall == Next \/ \E s \in Sessions : Stall(s)

SpecStall == Init /\ [][NextStall]_vars

\* ------------------------------------------------------------------ claims
Range(q) == {q[i] : i \in 1..Len(q)}

\* Session s is past its registration and has not left the handler.
Live(s) == pc[s] \in {"WELCOME", "READING"}

\* Session s leaves the handler in this step.
Terminates(s) == Live(s) /\ pc'[s] \notin {"WELCOME", "READING"}

\* Call d performs its send_text in this step.
WriteStep(d) == dpc[d] = "sending" /\ dpc'[d] = "done"

\* C1: when a session terminates because its transport has closed or failed
\* while the registry maps its id to another session, the registry still maps
\* the id to that other session (the deregistration is guarded by instance
\* identity).
C1_GuardedDeregister ==
    [][\A s \in Sessions :
          (/\ Terminates(s)
           /\ chan[s] # "open"
           /\ DictHas(active_connections, sid[s])
           /\ DictGet(active_connections, sid[s]) # s)
          => Lookup(active_connections', sid[s]) = Lookup(active_connections, sid[s])]_vars

\* C2: when the write of a dispatch fails and the registry by then maps the id
\* to a session other than the one the dispatch looked up, the dispatcher's
\* cleanup leaves that newer entry in place.
C2_DispatchCleanupGuarded ==
    [][\A d \in Calls :
          (/\ WriteStep(d)
           /\ chan[websocket[d]] # "open"
           /\ DictHas(active_connections, request[d].device_id)
           /\ DictGet(active_connections, request[d].device_id) # websocket[d])
          => Lookup(active_connections', request[d].device_id)
                = Lookup(active_connections, request[d].device_id)]_vars

\* C3: a dispatch to an id whose most recently connected session is in its
\* reading loop with a writable channel finds that session (it does not answer
\* "not connected") and, the session staying so, writes to it with success.
LatestReading(id) ==
    /\ latest[id] # NoSession
    /\ pc[latest[id]] = "READING"
    /\ chan[latest[id]] = "open"

C3_DispatchReachesLatest ==
    [][\A d \in Calls, id \in DeviceIds, cmd \in Cmds :
          (DispatchLookup(d, id, cmd) /\ LatestReading(id))
          => (dpc'[d] = "sending" /\ websocket'[d] = latest[id])]_vars

\* C4: handling a received text never ends the loop: after every Receive the
\* session is still READING.
C4_ReceiveKeepsReading ==
    [][\A s \in Sessions, data \in Texts :
          Receive(s, data) => pc'[s] = "READING"]_vars

\* C5: a dispatch to an id with no registry entry returns success=false with
\* device_id=id as a structured response, writes on no channel and leaves the
\* registry unchanged.
C5_AbsentIdFails ==
    [][\A d \in Calls, id \in DeviceIds :
          (/\ dpc[d] = "idle"
           /\ dpc'[d] # "idle"
           /\ request'[d].device_id = id
           /\ ~DictHas(active_connections, id))
          => /\ dpc'[d] = "done"
             /\ response'[d].success = FALSE
             /\ response'[d].device_id = id
             /\ writes'[d] = 0
             /\ outbox' = outbox
             /\ active_connections' = active_connections]_vars

\* C5 witness: a dispatch to the id of a session that has already closed was
\* answered "not connected" without a write.
C5_Witness ==
    \E d \in Calls, s \in Sessions :
        /\ pc[s] = "CLOSED"
        /\ dpc[d] = "done"
        /\ request[d].device_id = sid[s]
        /\ response[d] = NotConnected(sid[s])
        /\ writes[d] = 0

\* C6: a write to a writable channel succeeds: the response is success=true,
\* the channel receives exactly one more text, carrying the request's cmd and
\* a timestamp, no other channel receives anything and the registry is
\* unchanged; and no call ever makes more than one write attempt.
C6_SingleWrite ==
    /\ [][\A d \in Calls :
            (WriteStep(d) /\ chan[websocket[d]] = "open")
            => LET ws == websocket[d] IN
               /\ response'[d].success = TRUE
               /\ Len(outbox'[ws]) = Len(outbox[ws]) + 1
               /\ SubSeq(outbox'[ws], 1, Len(outbox[ws])) = outbox[ws]
               /\ outbox'[ws][Len(outbox'[ws])].cmd = request[d].cmd
               /\ outbox'[ws][Len(outbox'[ws])].timestamp \in Nat
               /\ \A t \in Sessions \ {ws} : outbox'[t] = outbox[t]
               /\ active_connections' = active_connections]_vars
    /\ [](\A d \in Calls :
            /\ writes[d] <= 1
            /\ (dpc[d] = "done" /\ response[d].success) => writes[d] = 1)

\* C6 witness: a call has returned success after one write, and the command
\* is the last text on a session's channel, after the welcome message.
C6_Witness ==
    \E d \in Calls, s \in Sessions :
        /\ dpc[d] = "done"
        /\ response[d].success
        /\ writes[d] = 1
        /\ Len(outbox[s]) = 2
        /\ outbox[s][2].cmd = request[d].cmd

\* C7: when the write of a dispatch fails, the call returns a structured
\* response with success=false and the registry then has no entry for the id;
\* an entry for an id appears only when a session registers under it.
C7_FailedWriteCleans ==
    /\ [][\A d \in Calls :
            (WriteStep(d) /\ chan[websocket[d]] # "open")
            => /\ response'[d].success = FALSE
               /\ response'[d].device_id = request[d].device_id
               /\ Lookup(active_connections', request[d].device_id) = NoSession]_vars
    /\ [][\A id \in DeviceIds :
            (~DictHas(active_connections, id) /\ DictHas(active_connections', id))
            => \E s \in Sessions :
                  pc[s] = "CONNECTING" /\ pc'[s] = "WELCOME" /\ sid[s] = id]_vars

\* C7 witness: a dispatch lost the race with a disconnect: the device has gone,
\* its session has not yet noticed, the call returned the send error and the
\* id is no longer registered.
C7_Witness ==
    \E d \in Calls, s \in Sessions :
        /\ dpc[d] = "done"
        /\ response[d] = SendError(sid[s])
        /\ pc[s] = "READING"
        /\ chan[s] = "closed"
        /\ Lookup(active_connections, sid[s]) = NoSession

\* No session under id has registered except s.
OnlySession(s, id) ==
    \A t \in Sessions \ {s} : sid[t] = id => pc[t] \in {"CONNECTING", "FAILED"}

\* C8: a session that leaves its handler after registering is CLOSED at once
\* and stays CLOSED, and the registry never maps an id to a CLOSED session; if
\* no other session has registered under its id, the snapshot excludes the id
\* and a dispatch to it returns success=false.
C8_CleanupOnEveryExit ==
    /\ [][\A s \in Sessions :
            /\ Terminates(s) => pc'[s] = "CLOSED"
            /\ pc[s] = "CLOSED" => pc'[s] = "CLOSED"]_vars
    /\ [](\A s \in Sessions :
            pc[s] = "CLOSED"
            => /\ Lookup(active_connections, sid[s]) # s
               /\ OnlySession(s, sid[s])
                  => sid[s] \notin Range(Snapshot(active_connections).devices))
    /\ [][\A d \in Calls, s \in Sessions :
            (/\ pc[s] = "CLOSED"
             /\ OnlySession(s, sid[s])
             /\ dpc[d] = "idle"
             /\ dpc'[d] # "idle"
             /\ request'[d].device_id = sid[s])
            => (dpc'[d] = "done" /\ response'[d].success = FALSE)]_vars

\* C8 witness: a session whose welcome message could not be sent is CLOSED,
\* its id is not registered, and a later dispatch to the id has failed.
C8_Witness ==
    \E d \in Calls, s \in Sessions :
        /\ pc[s] = "CLOSED"
        /\ outbox[s] = <<>>
        /\ OnlySession(s, sid[s])
        /\ ~DictHas(active_connections, sid[s])
        /\ dpc[d] = "done"
        /\ request[d].device_id = sid[s]
        /\ response[d].success = FALSE

\* No key occurs twice in the dict.
UniqueKeys(d) == \A i, j \in 1..Len(d) : d[i].key = d[j].key => i = j

\* C9: right after a session registers, lookup of its id returns that session,
\* the registry holds one entry per id, and no other session's position or
\* channel is changed by the registration.
C9_LastWriterWins ==
    /\ [][\A s \in Sessions :
            (pc[s] = "CONNECTING" /\ pc'[s] = "WELCOME")
            => /\ Lookup(active_connections', sid[s]) = s
               /\ \A id \in DeviceIds \ {sid[s]} :
                     Lookup(active_connections', id) = Lookup(active_connections, id)
               /\ \A t \in Sessions \ {s} : pc'[t] = pc[t] /\ chan'[t] = chan[t]]_vars
    /\ [](/\ UniqueKeys(active_connections)
          /\ \A id \in DeviceIds :
                Cardinality({i \in 1..Len(active_connections) :
                               active_connections[i].key = id}) <= 1)

\* C9 witness: a second session has registered under the id of a first one,
\* lookup returns the second, and the first is still reading on an open
\* channel.
C9_Witness ==
    \E s1, s2 \in Sessions :
        /\ s1 # s2
        /\ sid[s1] = sid[s2]
        /\ pc[s1] = "READING"
        /\ chan[s1] = "open"
        /\ Live(s2)
        /\ latest[sid[s2]] = s2
        /\ Lookup(active_connections, sid[s2]) = s2

\* C10: the body root() returns lists exactly the keys the registry holds at
\* the instant of the call, each once, with a count equal to their number, and
\* it lists the id of every session the registry maps.
C10_SnapshotConsistent ==
    /\ [][Root =>
            /\ Range(status'.devices) =
                  {id \in DeviceIds : DictHas(active_connections, id)}
            /\ \A s \in Sessions :
                  (Live(s) /\ Lookup(active_connections, sid[s]) = s)
                  => sid[s] \in Range(status'.devices)]_vars
    /\ [](status.status = "online"
          => /\ status.active_connections = Len(status.devices)
             /\ status.active_connections = Cardinality(Range(status.devices)))

\* C10 witness: two devices are connected and the latest snapshot lists both.
C10_Witness ==
    /\ status.status = "online"
    /\ status.active_connections = 2
    /\ \E s1, s2 \in Sessions :
          /\ pc[s1] = "READING"
          /\ pc[s2] = "READING"
          /\ status.devices = <<sid[s1], sid[s2]>>

\* C11: on every registry the program reaches, for every id and session,
\* deregistering twice leaves the registry as deregistering once does, and
\* deregistering raises no error, whether the id is present or absent; this
\* for the session's cleanup and for the dispatcher's.
C11_DeregisterIdempotent ==
    \A id \in DeviceIds, s \in Sessions :
        LET once == SessionCleanup(active_connections, id, s)
            donce == DispatchCleanup(active_connections, id, s)
        IN /\ once # KeyError
           /\ SessionCleanup(once, id, s) = once
           /\ ~DictHas(once, id)
           /\ donce # KeyError
           /\ DispatchCleanup(donce, id, s) = donce
           /\ SessionCleanup(donce, id, s) = donce

\* C11 witness: both deregistrations have run for one id, the dispatcher's
\* after a failed write and then the session's own, while another device is
\* registered.
C11_Witness ==
    \E d \in Calls, s, t \in Sessions :
        /\ dpc[d] = "done"
        /\ response[d] = SendError(sid[s])
        /\ pc[s] = "CLOSED"
        /\ Lookup(active_connections, sid[s]) = NoSession
        /\ Live(t)
        /\ Lookup(active_connections, sid[t]) = t

\* The registry maps every identifier but id as before the step.
OthersKept(id) ==
    \A other \in DeviceIds \ {id} :
        Lookup(active_connections', other) = Lookup(active_connections, other)

\* C12: the termination of a session (disconnect, read fault or any other
\* exit) changes no registry entry but that of its own id and neither the
\* position nor the channel of any other session; a failed dispatch write
\* changes no registry entry but that of its id and no session at all.
C12_FaultIsolation ==
    /\ [][\A s \in Sessions :
            Terminates(s)
            => /\ OthersKept(sid[s])
               /\ \A t \in Sessions \ {s} : pc'[t] = pc[t] /\ chan'[t] = chan[t]]_vars
    /\ [][\A d \in Calls :
            (WriteStep(d) /\ chan[websocket[d]] # "open")
            => /\ OthersKept(request[d].device_id)
               /\ pc' = pc
               /\ chan' = chan]_vars

\* C12 witness: a dispatch to one device failed and that device's session then
\* terminated, while the session of another device is still registered and
\* reading on an open channel.
C12_Witness ==
    \E d \in Calls, s, t \in Sessions :
        /\ sid[s] # sid[t]
        /\ dpc[d] = "done"
        /\ response[d] = SendError(sid[s])
        /\ pc[s] = "CLOSED"
        /\ pc[t] = "READING"
        /\ chan[t] = "open"
        /\ Lookup(active_connections, sid[t]) = t

\* The steps a session's position may take: NONE is before the connection,
\* WELCOME is accepted and registered, CLOSED is after the cleanup.
LifecycleSteps ==
    {<<"NONE", "CONNECTING">>, <<"CONNECTING", "WELCOME">>, <<"CONNECTING", "FAILED">>,
     <<"WELCOME", "READING">>, <<"WELCOME", "CLOSED">>, <<"READING", "CLOSED">>}

\* The number of welcome messages on the channel of session s.
Welcomes(s) ==
    Cardinality({i \in 1..Len(outbox[s]) : outbox[s][i] = WelcomeMsg(sid[s])})

\* C13: a session moves through its lifecycle in order; it enters the registry
\* only in the step that completes its handshake; it has sent its welcome
\* message exactly once when it is reading (and never more than once), in the
\* step that takes it from registered to reading; and nothing else is ever put
\* on its channel but the commands of dispatches: a received message, whatever
\* it is, adds nothing.
C13_Lifecycle ==
    /\ [][\A s \in Sessions :
            /\ pc'[s] # pc[s] => <<pc[s], pc'[s]>> \in LifecycleSteps
            /\ (/\ active_connections' # active_connections \/ sid'[s] # sid[s]
                /\ Lookup(active_connections', sid'[s]) = s
                /\ Lookup(active_connections, sid[s]) # s)
               => (pc[s] = "CONNECTING" /\ chan[s] = "open" /\ pc'[s] = "WELCOME")
            /\ (pc[s] = "WELCOME" /\ pc'[s] = "READING")
               => outbox'[s] = Append(outbox[s], WelcomeMsg(sid[s]))
            /\ outbox'[s] # outbox[s]
               => \/ pc[s] = "WELCOME" /\ pc'[s] = "READING"
                  \/ \E d \in Calls :
                        /\ WriteStep(d)
                        /\ websocket[d] = s
                        /\ outbox'[s] = Append(outbox[s], command_data[d])]_vars
    /\ [][outbox' # outbox =>
            \A s \in Sessions, data \in Texts : ~Receive(s, data)]_vars
    /\ [](\A s \in Sessions :
            /\ Welcomes(s) <= 1
            /\ pc[s] = "READING" => Welcomes(s) = 1
            /\ pc[s] \in {"NONE", "CONNECTING", "FAILED", "WELCOME"} => Welcomes(s) = 0)

\* C13 witness: a session has gone through the whole lifecycle and its channel
\* carried the welcome message and nothing else.
C13_Witness ==
    \E s \in Sessions :
        /\ pc[s] = "CLOSED"
        /\ outbox[s] = <<WelcomeMsg(sid[s])>>

\* C14: the dispatcher's presence check and fetch are one step: a call that
\* passes the check holds the session the registry mapped its id to at that
\* instant, and never a missing one; no removal ever faults on a key that
\* another task removed first (the registry never takes the KeyError value);
\* and no step that changes the registry puts a text on a channel.
C14_RegistryStepsAtomic ==
    /\ [][\A d \in Calls :
            (dpc[d] = "idle" /\ dpc'[d] = "sending")
            => /\ websocket'[d] \in Sessions
               /\ websocket'[d] = Lookup(active_connections, request'[d].device_id)
               /\ active_connections' = active_connections]_vars
    /\ [][active_connections' # active_connections => outbox' = outbox]_vars
    /\ [](/\ active_connections # KeyError
          /\ \A i \in 1..Len(active_connections) :
                active_connections[i].key \in DeviceIds
          /\ \A d \in Calls : dpc[d] = "sending" => websocket[d] \in Sessions)

\* C14 witness: a call is suspended in its write to a session that has
\* meanwhile terminated and removed the entry; the call's own removal will
\* find the key absent.
C14_Witness ==
    \E d \in Calls :
        /\ dpc[d] = "sending"
        /\ pc[websocket[d]] = "CLOSED"
        /\ ~DictHas(active_connections, request[d].device_id)

\* C15: a call that is waiting for its write can always return: the write
\* completes, or it fails, at the latest when the configured bound has passed.
C15_DispatchReturns ==
    \A d \in Calls :
        dpc[d] = "sending" => ENABLED (DispatchSendOk(d) \/ DispatchSendFail(d))

\* C16: the registry never holds a dead or not-yet-accepted session: every
\* entry maps its id to a session that connected under that id, has completed
\* the handshake and has not run its cleanup (it is in WELCOME or READING).
C16_RegistryHoldsLiveSessions ==
    \A i \in 1..Len(active_connections) :
        LET e == active_connections[i] IN
            /\ e.value \in Sessions
            /\ sid[e.value] = e.key
            /\ pc[e.value] \in {"WELCOME", "READING"}

\* C16 witness: one session has run its cleanup while another session is
\* registered and reading.
C16_Witness ==
    \E s, t \in Sessions :
        /\ pc[t] = "CLOSED"
        /\ pc[s] = "READING"
        /\ DictHas(active_connections, sid[s])
        /\ Lookup(active_connections, sid[s]) = s

\* C17: on every device channel the welcome message is the first outbound
\* message: no command written by a dispatch precedes it.
C17_WelcomeFirst ==
    \A s \in Sessions :
        outbox[s] # <<>> => outbox[s][1] = WelcomeMsg(sid[s])

====
